---- MODULE Spec2Model ----
(***************************************************************************)
(* Model of scripts/conformance_validator.py: the OpenID Connect           *)
(* conformance validator.  A run of main() constructs a ConformanceTester, *)
(* run_all_tests() calls the five checks in order, print_results() turns   *)
(* the result list into the exit code.  The provider under test is the     *)
(* environment: every HTTP exchange is a request appended to http_log,     *)
(* answered in a later step by a response drawn from a bounded set.        *)
(*                                                                         *)
(* Strings are sequences of tokens (a token is one character or one fixed  *)
(* piece of text), so str.rstrip, f-strings and ', '.join are computed.    *)
(* A JSON object is a function from the keys it holds to their values.     *)
(***************************************************************************)
EXTENDS Integers, Sequences, FiniteSets, TLC

VARIABLES
    pc,             \* position of the process in main / run_all_tests / a check
    argv,           \* sys.argv[1:]: <<>> or <<url>>
    tester,         \* TRUE once ConformanceTester(...) has been constructed
    ngrok_url,      \* self.ngrok_url
    discovery_url,  \* self.discovery_url
    metadata,       \* self.metadata: None or <<document>>
    results,        \* the list run_all_tests builds
    http_log,       \* every HTTP exchange issued so far: request and response
    calls,          \* names of the checks entered so far, in order
    faults,         \* exceptions caught by a check's except clause
    client_id,      \* local of test_registration_crud
    reg_token,      \* local of test_registration_crud
    get_url,        \* local of test_registration_crud
    exit_code       \* None or <<code>>: the argument of sys.exit

vars == <<pc, argv, tester, ngrok_url, discovery_url, metadata, results,
          http_log, calls, faults, client_id, reg_token, get_url, exit_code>>

(***************************************************************************)
(* Bounds of the model.                                                    *)
(***************************************************************************)
MaxUrlLen == 2      \* longest base URL / issuer, in characters
\* calls a caller other than run_all_tests makes on one tester
MaxCalls == 2
MaxKeys == 2        \* longest "keys" sequence of a JWKS response

(***************************************************************************)
(* Strings.                                                                *)
(***************************************************************************)
None == <<>>
Some(v) == <<v>>

Chars == {"h", "/"}

RECURSIVE StringsUpTo(_)
StringsUpTo(n) ==
    IF n = 0 THEN {<<>>}
    ELSE LET shorter == StringsUpTo(n - 1)
         IN  shorter \cup {Append(s, c) : s \in {t \in shorter : Len(t) = n - 1}, c \in Chars}

\* a base URL used as given
RStripNothing(s) == s

\* str.rstrip('/'): every trailing slash is removed
RECURSIVE RStrip(_)
RStrip(s) ==
    IF s # <<>> /\ s[Len(s)] = "/" THEN RStrip(SubSeq(s, 1, Len(s) - 1)) ELSE s

\* ', '.join(list of one-token strings)
RECURSIVE Join(_)
Join(names) ==
    IF names = <<>> THEN <<>>
    ELSE IF Len(names) = 1 THEN <<names[1]>>
    ELSE <<names[1], ", ">> \o Join(Tail(names))

\* [f for f in fields if f not in obj]
RECURSIVE MissingFields(_, _)
MissingFields(fields, obj) ==
    IF fields = <<>> THEN <<>>
    ELSE (IF fields[1] \in DOMAIN obj THEN <<>> ELSE <<fields[1]>>)
         \o MissingFields(Tail(fields), obj)

\* dict.get(key, default)
Get(obj, key, default) == IF key \in DOMAIN obj THEN obj[key] ELSE default

Range(s) == {s[i] : i \in DOMAIN s}

(***************************************************************************)
(* TestResult and the five check names.                                    *)
(***************************************************************************)
DiscoveryName == "Discovery Endpoint"
JwksName == "JWKS Endpoint"
RegistrationName == "Registration Endpoint"
CrudName == "Registration CRUD"
ComplianceName == "Metadata Compliance"

NoDetails == [kind |-> "none", doc |-> <<>>, list |-> <<>>]
DocDetails(doc) == [kind |-> "doc", doc |-> doc, list |-> <<>>]
ListDetails(kind, list) == [kind |-> kind, doc |-> <<>>, list |-> list]

TestResult(name, passed, message, details) ==
    [name |-> name, passed |-> passed, message |-> message, details |-> details]

(***************************************************************************)
(* HTTP exchanges.  A response is a connection error, a timeout, or an     *)
(* HTTP response with a status, a body that parses as JSON or not, and the *)
(* parsed body.                                                            *)
(***************************************************************************)
Pending == [kind |-> "pending", status |-> 0, json |-> FALSE, body |-> <<>>]
ConnError == [kind |-> "conn_error", status |-> 0, json |-> FALSE, body |-> <<>>]
Timeout == [kind |-> "timeout", status |-> 0, json |-> FALSE, body |-> <<>>]
Http(status, body) == [kind |-> "http", status |-> status, json |-> TRUE, body |-> body]
BadJson(status) == [kind |-> "http", status |-> status, json |-> FALSE, body |-> <<>>]

TransportFailures == {ConnError, Timeout, Http(404, <<>>), Http(500, <<>>), BadJson(200)}

Request(check, method, url, auth) ==
    [check |-> check, method |-> method, url |-> url, auth |-> auth, resp |-> Pending]

\* requests.get/post/put/delete raising instead of returning a response
SendRaises(r) == r.kind \in {"conn_error", "timeout"}
\* resp.raise_for_status(): raises for the 4xx and 5xx statuses only
StatusRaises(r) == r.kind = "http" /\ r.status >= 400 /\ r.status < 600
\* resp.json()
JsonRaises(r) == r.kind = "http" /\ ~r.json

\* str(e) of the exception a failed exchange raises
Cause(r) ==
    IF r.kind = "conn_error" THEN <<"ConnectionError">>
    ELSE IF r.kind = "timeout" THEN <<"ReadTimeout">>
    ELSE IF StatusRaises(r) THEN <<ToString(r.status), " Error">>
    ELSE <<"JSONDecodeError">>

KeyError(key) == <<"'", key, "'">>

\* an except clause copied from test_discovery with its name left unchanged
FailedAsDiscovery(name, cause) ==
    TestResult("Discovery Endpoint", FALSE, <<"Failed: ">> \o cause, NoDetails)

\* except Exception as e: return TestResult(name, False, f"Failed: {str(e)}")
Failed(name, cause) == TestResult(name, FALSE, <<"Failed: ">> \o cause, NoDetails)

(***************************************************************************)
(* The discovery document.                                                 *)
(***************************************************************************)
required_fields ==
    <<"issuer", "authorization_endpoint", "token_endpoint", "jwks_uri",
      "response_types_supported", "subject_types_supported",
      "id_token_signing_alg_values_supported">>

\* a document a conformant provider with issuer iss publishes
GoodDoc(iss) ==
    [issuer |-> iss,
     authorization_endpoint |-> <<"authz">>,
     token_endpoint |-> <<"token">>,
     jwks_uri |-> <<"jwks">>,
     response_types_supported |-> <<"code">>,
     subject_types_supported |-> <<"public">>,
     id_token_signing_alg_values_supported |-> <<"RS256">>,
     registration_endpoint |-> <<"reg">>,
     grant_types_supported |-> <<"authorization_code">>,
     token_endpoint_auth_methods_supported |-> <<"client_secret_basic">>,
     scopes_supported |-> <<"openid">>]

Restrict(obj, keys) == [k \in (DOMAIN obj) \cap keys |-> obj[k]]
Without(obj, keys) == [k \in (DOMAIN obj) \ keys |-> obj[k]]

\* not x, for x a string, a list or a dict (None is modelled as the empty value)
Falsy(x) == DOMAIN x = {}

(***************************************************************************)
(* ConformanceTester.__init__                                              *)
(***************************************************************************)
WellKnown == <<"/.well-known/openid-configuration">>

InitTester(url) ==
    [ngrok_url |-> RStrip(url),
     discovery_url |-> RStrip(url) \o WellKnown,
     metadata |-> None]

(***************************************************************************)
(* Steps shared by the checks.                                             *)
(***************************************************************************)
Last(s) == s[Len(s)]

\* a check is entered
Enter(name) == calls' = Append(calls, name)

\* a request goes out
Send(name, method, url, auth) ==
    http_log' = Append(http_log, Request(name, method, url, auth))

\* the log once the response of the pending request has arrived
Answered(r) == [http_log EXCEPT ![Len(http_log)].resp = r]

Receive(r) ==
    /\ http_log # <<>>
    /\ Last(http_log).resp = Pending
    /\ http_log' = Answered(r)

\* the response arrives and the check issues its next request
ReceiveAndSend(r, name, method, url, auth) ==
    /\ http_log # <<>>
    /\ Last(http_log).resp = Pending
    /\ http_log' = Append(Answered(r), Request(name, method, url, auth))

\* a run_all_tests that returns as soon as the JWKS check has returned
FollowingStopsAfterJwks(name) ==
    CASE name = DiscoveryName -> "gate"
      [] name = JwksName -> "print"
      [] name = RegistrationName -> "crud"
      [] name = CrudName -> "compliance"
      [] name = ComplianceName -> "print"

\* run_all_tests: where control goes once the named check has returned
Following(name) ==
    CASE name = DiscoveryName -> "gate"
      [] name = JwksName -> "registration"
      [] name = RegistrationName -> "crud"
      [] name = CrudName -> "compliance"
      [] name = ComplianceName -> "print"

\* results.append(self.test_xxx()), then on to position next of run_all_tests
Return(result, next) ==
    /\ results' = Append(results, result)
    /\ pc' = next

\* the check's "except Exception as e" clause
Catch(name, cause, next) ==
    /\ faults' = Append(faults, [check |-> name, cause |-> cause])
    /\ Return(Failed(name, cause), next)

CrudLocalsUnchanged == UNCHANGED <<client_id, reg_token, get_url>>
TesterUnchanged == UNCHANGED <<tester, ngrok_url, discovery_url, metadata>>

(***************************************************************************)
(* test_discovery                                                          *)
(***************************************************************************)
\* a test_discovery that compares the issuer before looking for missing keys
DiscoveryResultIssuerFirst(doc, base) ==
    LET missing == MissingFields(required_fields, doc)
    IN  IF "issuer" \in DOMAIN doc /\ doc["issuer"] # base
        THEN TestResult(DiscoveryName, FALSE,
                        <<"Issuer mismatch: ">> \o doc["issuer"] \o <<" != ">> \o base,
                        DocDetails(doc))
        ELSE IF missing # <<>>
        THEN TestResult(DiscoveryName, FALSE,
                        <<"Missing required fields: ">> \o Join(missing),
                        DocDetails(doc))
        ELSE TestResult(DiscoveryName, TRUE, <<"All required fields present">>,
                        ListDetails("endpoints",
                            <<doc["issuer"], doc["authorization_endpoint"],
                              doc["token_endpoint"], doc["jwks_uri"],
                              Get(doc, "registration_endpoint", <<"N/A">>)>>))

\* a test_discovery that does not compare the issuer
DiscoveryResultAnyIssuer(doc, base) ==
    LET missing == MissingFields(required_fields, doc)
    IN  IF missing # <<>>
        THEN TestResult(DiscoveryName, FALSE,
                        <<"Missing required fields: ">> \o Join(missing),
                        DocDetails(doc))
        ELSE TestResult(DiscoveryName, TRUE, <<"All required fields present">>,
                        ListDetails("endpoints",
                            <<doc["issuer"], doc["authorization_endpoint"],
                              doc["token_endpoint"], doc["jwks_uri"],
                              Get(doc, "registration_endpoint", <<"N/A">>)>>))

\* the result of test_discovery for a fetched document (lines 66-107)
DiscoveryResult(doc, base) ==
    LET missing == MissingFields(required_fields, doc)
    IN  IF missing # <<>>
        THEN TestResult(DiscoveryName, FALSE,
                        <<"Missing required fields: ">> \o Join(missing),
                        DocDetails(doc))
        ELSE IF doc["issuer"] # base
        THEN TestResult(DiscoveryName, FALSE,
                        <<"Issuer mismatch: ">> \o doc["issuer"] \o <<" != ">> \o base,
                        DocDetails(doc))
        ELSE TestResult(DiscoveryName, TRUE, <<"All required fields present">>,
                        ListDetails("endpoints",
                            <<doc["issuer"], doc["authorization_endpoint"],
                              doc["token_endpoint"], doc["jwks_uri"],
                              Get(doc, "registration_endpoint", <<"N/A">>)>>))

TestDiscoveryStart ==
    /\ pc = "discovery"
    /\ Enter(DiscoveryName)
    /\ Send(DiscoveryName, "GET", discovery_url, None)
    /\ pc' = "discovery_wait"
    /\ UNCHANGED <<argv, results, faults, exit_code>>
    /\ TesterUnchanged /\ CrudLocalsUnchanged

TestDiscoveryResp(responses) ==
    /\ pc = "discovery_wait"
    /\ \E r \in responses :
        /\ Receive(r)
        /\ IF SendRaises(r) \/ StatusRaises(r) \/ JsonRaises(r)
           THEN /\ Catch(DiscoveryName, Cause(r), Following(DiscoveryName))
                /\ UNCHANGED metadata
           ELSE /\ metadata' = Some(r.body)
                /\ Return(DiscoveryResult(r.body, ngrok_url), Following(DiscoveryName))
                /\ UNCHANGED faults
    /\ UNCHANGED <<argv, tester, ngrok_url, discovery_url, calls, exit_code>>
    /\ CrudLocalsUnchanged

(***************************************************************************)
(* main and run_all_tests                                                  *)
(***************************************************************************)
Main ==
    /\ pc = "main"
    /\ IF Len(argv) < 1
       THEN /\ exit_code' = Some(1)
            /\ pc' = "exited"
            /\ TesterUnchanged
       ELSE LET t == InitTester(RStrip(argv[1]))
            IN  /\ tester' = TRUE
                /\ ngrok_url' = t.ngrok_url
                /\ discovery_url' = t.discovery_url
                /\ metadata' = t.metadata
                /\ pc' = "discovery"
                /\ UNCHANGED exit_code
    /\ UNCHANGED <<argv, results, http_log, calls, faults>>
    /\ CrudLocalsUnchanged

\* a gate that lets a failed Discovery result through
GateOpen(rs) == "jwks"

\* a gate with its condition inverted
GateInverted(rs) == IF Last(rs).passed THEN "print" ELSE "jwks"

\* if not results[-1].passed: return results
GateTarget(rs) == IF ~Last(rs).passed THEN "print" ELSE "jwks"

Gate ==
    /\ pc = "gate"
    /\ pc' = GateTarget(results)
    /\ UNCHANGED <<argv, results, http_log, calls, faults, exit_code>>
    /\ TesterUnchanged /\ CrudLocalsUnchanged

\* not self.metadata: None or an empty document
NoMetadata == metadata = None \/ Falsy(metadata[1])

Precondition(name) == TestResult(name, FALSE, <<"Discovery must pass first">>, NoDetails)

(***************************************************************************)
(* test_jwks                                                               *)
(***************************************************************************)
\* a key check that also insists on alg
required_key_fields_with_alg == <<"kty", "use", "kid", "alg">>

required_key_fields == <<"kty", "use", "kid">>

\* a key of a JWKS holding the given fields
JwkValues == [kty |-> <<"RSA">>, use |-> <<"sig">>, kid |-> <<"k1">>, alg |-> <<"RS256">>]
Jwk(fields) == Restrict(JwkValues, fields)

\* for i, key in enumerate(keys): the first index (from 0) whose key lacks a
\* required field, or Len(keys) when no key does
RECURSIVE FirstBadKey(_, _)
FirstBadKey(keys, i) ==
    IF i >= Len(keys) THEN Len(keys)
    ELSE IF MissingFields(required_key_fields, keys[i + 1]) # <<>> THEN i
    ELSE FirstBadKey(keys, i + 1)

\* [k.get(field) for k in keys]
KeyValues(keys, field) == [i \in DOMAIN keys |-> Get(keys[i], field, None)]

\* the result of test_jwks for a fetched key set (lines 138-172)
JwksResult(jwks) ==
    IF "keys" \notin DOMAIN jwks
    THEN TestResult(JwksName, FALSE, <<"JWKS missing 'keys' field">>, NoDetails)
    ELSE IF Len(jwks["keys"]) = 0
    THEN TestResult(JwksName, FALSE, <<"JWKS has no keys">>, NoDetails)
    ELSE LET keys == jwks["keys"]
             i == FirstBadKey(keys, 0)
         IN  IF i < Len(keys)
             THEN TestResult(JwksName, FALSE,
                      <<"Key ", ToString(i), " missing fields: ">>
                          \o Join(MissingFields(required_key_fields, keys[i + 1])),
                      NoDetails)
             ELSE TestResult(JwksName, TRUE,
                      <<"Valid JWKS with ", ToString(Len(keys)), " key(s)">>,
                      ListDetails("key_types_algorithms",
                                  KeyValues(keys, "kty") \o KeyValues(keys, "alg")))

TestJwksStart ==
    /\ pc = "jwks"
    /\ Enter(JwksName)
    /\ IF NoMetadata
       THEN /\ Return(Precondition(JwksName), Following(JwksName))
            /\ UNCHANGED http_log
       ELSE IF Falsy(Get(metadata[1], "jwks_uri", None))
       THEN /\ Return(TestResult(JwksName, FALSE, <<"No jwks_uri in discovery">>, NoDetails),
                      Following(JwksName))
            /\ UNCHANGED http_log
       ELSE /\ Send(JwksName, "GET", metadata[1]["jwks_uri"], None)
            /\ pc' = "jwks_wait"
            /\ UNCHANGED results
    /\ UNCHANGED <<argv, faults, exit_code>>
    /\ TesterUnchanged /\ CrudLocalsUnchanged

TestJwksResp(responses) ==
    /\ pc = "jwks_wait"
    /\ \E r \in responses :
        /\ Receive(r)
        /\ IF SendRaises(r) \/ StatusRaises(r) \/ JsonRaises(r)
           THEN Catch(JwksName, Cause(r), Following(JwksName))
           ELSE /\ Return(JwksResult(r.body), Following(JwksName))
                /\ UNCHANGED faults
    /\ UNCHANGED <<argv, calls, exit_code>>
    /\ TesterUnchanged /\ CrudLocalsUnchanged

(***************************************************************************)
(* test_registration                                                       *)
(***************************************************************************)
required_resp_fields == <<"client_id">>

\* client["client_id"][:8]
Prefix(s, n) == SubSeq(s, 1, IF Len(s) < n THEN Len(s) ELSE n)

BoolStr(b) == IF b THEN <<"True">> ELSE <<"False">>

\* a test_registration that takes an omitted auth method for "none"
RegistrationResultDefaultNone(client) ==
    LET missing == MissingFields(required_resp_fields, client)
    IN  IF missing # <<>>
        THEN TestResult(RegistrationName, FALSE,
                        <<"Response missing fields: ">> \o Join(missing),
                        DocDetails(client))
        ELSE IF /\ Get(client, "token_endpoint_auth_method", <<"none">>) # <<"none">>
                /\ "client_secret" \notin DOMAIN client
        THEN TestResult(RegistrationName, FALSE,
                        <<"Missing client_secret for confidential client">>,
                        DocDetails(client))
        ELSE TestResult(RegistrationName, TRUE, <<"Client registered successfully">>,
                        ListDetails("client",
                            <<Prefix(client["client_id"], 8) \o <<"...">>,
                              BoolStr("client_secret" \in DOMAIN client),
                              BoolStr("registration_access_token" \in DOMAIN client)>>))

\* the result of test_registration for a parsed response (lines 216-248)
RegistrationResult(client) ==
    LET missing == MissingFields(required_resp_fields, client)
    IN  IF missing # <<>>
        THEN TestResult(RegistrationName, FALSE,
                        <<"Response missing fields: ">> \o Join(missing),
                        DocDetails(client))
        ELSE IF /\ Get(client, "token_endpoint_auth_method", None) # <<"none">>
                /\ "client_secret" \notin DOMAIN client
        THEN TestResult(RegistrationName, FALSE,
                        <<"Missing client_secret for confidential client">>,
                        DocDetails(client))
        ELSE TestResult(RegistrationName, TRUE, <<"Client registered successfully">>,
                        ListDetails("client",
                            <<Prefix(client["client_id"], 8) \o <<"...">>,
                              BoolStr("client_secret" \in DOMAIN client),
                              BoolStr("registration_access_token" \in DOMAIN client)>>))

TestRegistrationStart ==
    /\ pc = "registration"
    /\ Enter(RegistrationName)
    /\ IF NoMetadata
       THEN /\ Return(Precondition(RegistrationName), Following(RegistrationName))
            /\ UNCHANGED http_log
       ELSE IF Falsy(Get(metadata[1], "registration_endpoint", None))
       THEN /\ Return(TestResult(RegistrationName, FALSE,
                                 <<"No registration_endpoint in discovery">>, NoDetails),
                      Following(RegistrationName))
            /\ UNCHANGED http_log
       ELSE /\ Send(RegistrationName, "POST", metadata[1]["registration_endpoint"], None)
            /\ pc' = "registration_wait"
            /\ UNCHANGED results
    /\ UNCHANGED <<argv, faults, exit_code>>
    /\ TesterUnchanged /\ CrudLocalsUnchanged

\* a test_registration that keeps the client it created for the checks after it
TestRegistrationRespRetaining(responses) ==
    /\ pc = "registration_wait"
    /\ \E r \in responses :
        /\ Receive(r)
        /\ IF SendRaises(r) \/ StatusRaises(r) \/ JsonRaises(r)
           THEN /\ Catch(RegistrationName, Cause(r), Following(RegistrationName))
                /\ CrudLocalsUnchanged
           ELSE /\ Return(RegistrationResult(r.body), Following(RegistrationName))
                /\ client_id' = Get(r.body, "client_id", None)
                /\ reg_token' = Get(r.body, "registration_access_token", None)
                /\ get_url' = metadata[1]["registration_endpoint"] \o <<"/">>
                                  \o Get(r.body, "client_id", None)
                /\ UNCHANGED faults
    /\ UNCHANGED <<argv, calls, exit_code>>
    /\ TesterUnchanged

TestRegistrationResp(responses) ==
    /\ pc = "registration_wait"
    /\ \E r \in responses :
        /\ Receive(r)
        /\ IF SendRaises(r) \/ StatusRaises(r) \/ JsonRaises(r)
           THEN Catch(RegistrationName, Cause(r), Following(RegistrationName))
           ELSE /\ Return(RegistrationResult(r.body), Following(RegistrationName))
                /\ UNCHANGED faults
    /\ UNCHANGED <<argv, calls, exit_code>>
    /\ TesterUnchanged /\ CrudLocalsUnchanged

(***************************************************************************)
(* test_registration_crud                                                  *)
(***************************************************************************)
Bearer(token) == <<"Bearer ">> \o token

CrudFailure(message) == TestResult(CrudName, FALSE, message, NoDetails)

\* the locals of test_registration_crud end with the call
CrudReturn(result) ==
    /\ Return(result, Following(CrudName))
    /\ client_id' = None /\ reg_token' = None /\ get_url' = None

CrudCatch(cause) ==
    /\ Catch(CrudName, cause, Following(CrudName))
    /\ client_id' = None /\ reg_token' = None /\ get_url' = None

\* a test_registration_crud that indexes the document instead of calling get
TestCrudStartIndexing ==
    /\ pc = "crud"
    /\ Enter(CrudName)
    /\ IF NoMetadata
       THEN /\ Return(Precondition(CrudName), Following(CrudName))
            /\ UNCHANGED <<http_log, faults>>
       ELSE IF "registration_endpoint" \notin DOMAIN metadata[1]
       THEN /\ Catch(CrudName, KeyError("registration_endpoint"), Following(CrudName))
            /\ UNCHANGED http_log
       ELSE IF Falsy(metadata[1]["registration_endpoint"])
       THEN /\ Return(CrudFailure(<<"No registration_endpoint in discovery">>), Following(CrudName))
            /\ UNCHANGED <<http_log, faults>>
       ELSE /\ Send(CrudName, "POST", metadata[1]["registration_endpoint"], None)
            /\ pc' = "crud_create"
            /\ UNCHANGED <<results, faults>>
    /\ UNCHANGED <<argv, exit_code>>
    /\ TesterUnchanged /\ CrudLocalsUnchanged

TestCrudStart ==
    /\ pc = "crud"
    /\ Enter(CrudName)
    /\ IF NoMetadata
       THEN /\ Return(Precondition(CrudName), Following(CrudName))
            /\ UNCHANGED http_log
       ELSE IF Falsy(Get(metadata[1], "registration_endpoint", None))
       THEN /\ Return(CrudFailure(<<"No registration_endpoint in discovery">>), Following(CrudName))
            /\ UNCHANGED http_log
       ELSE /\ Send(CrudName, "POST", metadata[1]["registration_endpoint"], None)
            /\ pc' = "crud_create"
            /\ UNCHANGED results
    /\ UNCHANGED <<argv, faults, exit_code>>
    /\ TesterUnchanged /\ CrudLocalsUnchanged

\* a test_registration_crud that reads client_id with get
TestCrudCreateRespGet(responses) ==
    /\ pc = "crud_create"
    /\ \E r \in responses :
        IF SendRaises(r) \/ StatusRaises(r) \/ JsonRaises(r)
        THEN Receive(r) /\ CrudCatch(Cause(r))
        ELSE IF Falsy(Get(r.body, "registration_access_token", None))
        THEN /\ Receive(r)
             /\ CrudReturn(CrudFailure(<<"No registration_access_token in response">>))
             /\ UNCHANGED faults
        ELSE LET id == Get(r.body, "client_id", <<"None">>)
                 url == metadata[1]["registration_endpoint"] \o <<"/">> \o id
                 token == r.body["registration_access_token"]
             IN  /\ client_id' = id
                 /\ reg_token' = token
                 /\ get_url' = url
                 /\ ReceiveAndSend(r, CrudName, "GET", url, Bearer(token))
                 /\ pc' = "crud_read"
                 /\ UNCHANGED <<results, faults>>
    /\ UNCHANGED <<argv, calls, exit_code>>
    /\ TesterUnchanged

\* lines 283-303: the create response, then the GET
TestCrudCreateResp(responses) ==
    /\ pc = "crud_create"
    /\ \E r \in responses :
        IF SendRaises(r) \/ StatusRaises(r) \/ JsonRaises(r)
        THEN Receive(r) /\ CrudCatch(Cause(r))
        ELSE IF "client_id" \notin DOMAIN r.body
        THEN Receive(r) /\ CrudCatch(KeyError("client_id"))
        ELSE IF Falsy(Get(r.body, "registration_access_token", None))
        THEN /\ Receive(r)
             /\ CrudReturn(CrudFailure(<<"No registration_access_token in response">>))
             /\ UNCHANGED faults
        ELSE LET url == metadata[1]["registration_endpoint"] \o <<"/">> \o r.body["client_id"]
                 token == r.body["registration_access_token"]
             IN  /\ client_id' = r.body["client_id"]
                 /\ reg_token' = token
                 /\ get_url' = url
                 /\ ReceiveAndSend(r, CrudName, "GET", url, Bearer(token))
                 /\ pc' = "crud_read"
                 /\ UNCHANGED <<results, faults>>
    /\ UNCHANGED <<argv, calls, exit_code>>
    /\ TesterUnchanged

\* lines 304-325: the read response, then the PUT
TestCrudReadResp(responses) ==
    /\ pc = "crud_read"
    /\ \E r \in responses :
        IF SendRaises(r) \/ StatusRaises(r) \/ JsonRaises(r)
        THEN Receive(r) /\ CrudCatch(Cause(r))
        ELSE IF "client_id" \notin DOMAIN r.body
        THEN Receive(r) /\ CrudCatch(KeyError("client_id"))
        ELSE IF r.body["client_id"] # client_id
        THEN /\ Receive(r)
             /\ CrudReturn(CrudFailure(<<"Retrieved client_id mismatch">>))
             /\ UNCHANGED faults
        ELSE /\ ReceiveAndSend(r, CrudName, "PUT", get_url, Bearer(reg_token))
             /\ pc' = "crud_update"
             /\ UNCHANGED <<results, faults>>
             /\ CrudLocalsUnchanged
    /\ UNCHANGED <<argv, calls, exit_code>>
    /\ TesterUnchanged

\* an update check content with any redirect URI
UpdateAcceptedNonEmpty(updated) == Len(updated["redirect_uris"]) >= 1

\* if len(updated["redirect_uris"]) != 2: "Client update failed"
UpdateAccepted(updated) == Len(updated["redirect_uris"]) = 2

\* a test_registration_crud that takes the client id and the token of the
\* DELETE from the update response
TestCrudUpdateRespRotating(responses) ==
    /\ pc = "crud_update"
    /\ \E r \in responses :
        IF SendRaises(r) \/ StatusRaises(r) \/ JsonRaises(r)
        THEN Receive(r) /\ CrudCatch(Cause(r))
        ELSE IF "redirect_uris" \notin DOMAIN r.body
        THEN Receive(r) /\ CrudCatch(KeyError("redirect_uris"))
        ELSE IF ~UpdateAccepted(r.body)
        THEN /\ Receive(r)
             /\ CrudReturn(CrudFailure(<<"Client update failed">>))
             /\ UNCHANGED faults
        ELSE /\ ReceiveAndSend(r, CrudName, "DELETE",
                    metadata[1]["registration_endpoint"] \o <<"/">>
                        \o Get(r.body, "client_id", client_id),
                    Bearer(Get(r.body, "registration_access_token", reg_token)))
             /\ pc' = "crud_delete"
             /\ UNCHANGED <<results, faults>>
             /\ CrudLocalsUnchanged
    /\ UNCHANGED <<argv, calls, exit_code>>
    /\ TesterUnchanged

\* lines 326-341: the update response, then the DELETE
TestCrudUpdateResp(responses) ==
    /\ pc = "crud_update"
    /\ \E r \in responses :
        IF SendRaises(r) \/ StatusRaises(r) \/ JsonRaises(r)
        THEN Receive(r) /\ CrudCatch(Cause(r))
        ELSE IF "redirect_uris" \notin DOMAIN r.body
        THEN Receive(r) /\ CrudCatch(KeyError("redirect_uris"))
        ELSE IF ~UpdateAccepted(r.body)
        THEN /\ Receive(r)
             /\ CrudReturn(CrudFailure(<<"Client update failed">>))
             /\ UNCHANGED faults
        ELSE /\ ReceiveAndSend(r, CrudName, "DELETE", get_url, Bearer(reg_token))
             /\ pc' = "crud_delete"
             /\ UNCHANGED <<results, faults>>
             /\ CrudLocalsUnchanged
    /\ UNCHANGED <<argv, calls, exit_code>>
    /\ TesterUnchanged

\* a test_registration_crud content with any 2xx status of the DELETE response
TestCrudDeleteRespAny2xx(responses) ==
    /\ pc = "crud_delete"
    /\ \E r \in responses :
        /\ Receive(r)
        /\ IF SendRaises(r)
           THEN CrudCatch(Cause(r))
           ELSE IF r.status < 200 \/ r.status >= 300
           THEN /\ CrudReturn(CrudFailure(<<"Delete returned ", ToString(r.status),
                                            ", expected 204">>))
                /\ UNCHANGED faults
           ELSE /\ CrudReturn(TestResult(CrudName, TRUE, <<"All CRUD operations successful">>,
                                  ListDetails("steps",
                                      <<<<"create">>, <<"read">>, <<"update">>, <<"delete">>>>)))
                /\ UNCHANGED faults
    /\ UNCHANGED <<argv, calls, exit_code>>
    /\ TesterUnchanged

\* lines 343-360: the delete response; its status is read, never raised, and
\* its body is never parsed
TestCrudDeleteResp(responses) ==
    /\ pc = "crud_delete"
    /\ \E r \in responses :
        /\ Receive(r)
        /\ IF SendRaises(r)
           THEN CrudCatch(Cause(r))
           ELSE IF r.status # 204
           THEN /\ CrudReturn(CrudFailure(<<"Delete returned ", ToString(r.status),
                                            ", expected 204">>))
                /\ UNCHANGED faults
           ELSE /\ CrudReturn(TestResult(CrudName, TRUE, <<"All CRUD operations successful">>,
                                  ListDetails("steps",
                                      <<<<"create">>, <<"read">>, <<"update">>, <<"delete">>>>)))
                /\ UNCHANGED faults
    /\ UNCHANGED <<argv, calls, exit_code>>
    /\ TesterUnchanged

(***************************************************************************)
(* test_metadata_compliance                                                *)
(***************************************************************************)
\* an issues list that stops at the first rule violated
IssuesFirstOnly(doc) ==
    IF "code" \notin Range(Get(doc, "response_types_supported", <<>>))
    THEN << <<"Missing 'code' in response_types_supported">> >>
    ELSE IF "authorization_code" \notin Range(Get(doc, "grant_types_supported", <<>>))
    THEN << <<"Missing 'authorization_code' in grant_types_supported">> >>
    ELSE IF Falsy(Get(doc, "token_endpoint_auth_methods_supported", <<>>))
    THEN << <<"No token_endpoint_auth_methods_supported">> >>
    ELSE IF Falsy(Get(doc, "scopes_supported", None))
    THEN << <<"No scopes_supported">> >>
    ELSE IF "openid" \notin Range(doc["scopes_supported"])
    THEN << <<"Missing 'openid' scope">> >>
    ELSE IF Falsy(Get(doc, "subject_types_supported", <<>>))
    THEN << <<"No subject_types_supported">> >>
    ELSE IF "RS256" \notin Range(Get(doc, "id_token_signing_alg_values_supported", <<>>))
    THEN << <<"Missing 'RS256' in id_token_signing_alg_values_supported">> >>
    ELSE <<>>

\* the issues list built by lines 379-409
Issues(doc) ==
    (IF "code" \notin Range(Get(doc, "response_types_supported", <<>>))
     THEN << <<"Missing 'code' in response_types_supported">> >> ELSE <<>>)
    \o
    (IF "authorization_code" \notin Range(Get(doc, "grant_types_supported", <<>>))
     THEN << <<"Missing 'authorization_code' in grant_types_supported">> >> ELSE <<>>)
    \o
    (IF Falsy(Get(doc, "token_endpoint_auth_methods_supported", <<>>))
     THEN << <<"No token_endpoint_auth_methods_supported">> >> ELSE <<>>)
    \o
    (IF Falsy(Get(doc, "scopes_supported", None))
     THEN << <<"No scopes_supported">> >>
     ELSE IF "openid" \notin Range(doc["scopes_supported"])
     THEN << <<"Missing 'openid' scope">> >> ELSE <<>>)
    \o
    (IF Falsy(Get(doc, "subject_types_supported", <<>>))
     THEN << <<"No subject_types_supported">> >> ELSE <<>>)
    \o
    (IF "RS256" \notin Range(Get(doc, "id_token_signing_alg_values_supported", <<>>))
     THEN << <<"Missing 'RS256' in id_token_signing_alg_values_supported">> >> ELSE <<>>)

\* the result of test_metadata_compliance for the cached document (lines 411-429)
ComplianceResult(doc) ==
    LET issues == Issues(doc)
    IN  IF issues # <<>>
        THEN TestResult(ComplianceName, FALSE,
                        <<"Found ", ToString(Len(issues)), " compliance issue(s)">>,
                        ListDetails("issues", issues))
        ELSE TestResult(ComplianceName, TRUE, <<"Metadata is OpenID Connect compliant">>,
                        ListDetails("supported",
                            <<doc["response_types_supported"],
                              Get(doc, "grant_types_supported", None),
                              Get(doc, "scopes_supported", None),
                              doc["subject_types_supported"]>>))

\* a compliance check that reads with setdefault instead of get
TestMetadataComplianceSetDefault ==
    /\ pc = "compliance"
    /\ Enter(ComplianceName)
    /\ IF NoMetadata
       THEN /\ Return(Precondition(ComplianceName), Following(ComplianceName))
            /\ UNCHANGED metadata
       ELSE /\ Return(ComplianceResult(metadata[1]), Following(ComplianceName))
            /\ metadata' = Some([k \in DOMAIN metadata[1] \cup {"grant_types_supported"} |->
                                   Get(metadata[1], k, <<>>)])
    /\ UNCHANGED <<argv, http_log, faults, exit_code>>
    /\ UNCHANGED <<tester, ngrok_url, discovery_url>> /\ CrudLocalsUnchanged

TestMetadataCompliance ==
    /\ pc = "compliance"
    /\ Enter(ComplianceName)
    /\ IF NoMetadata
       THEN Return(Precondition(ComplianceName), Following(ComplianceName))
       ELSE Return(ComplianceResult(metadata[1]), Following(ComplianceName))
    /\ UNCHANGED <<argv, http_log, faults, exit_code>>
    /\ TesterUnchanged /\ CrudLocalsUnchanged

(***************************************************************************)
(* print_results and sys.exit                                              *)
(***************************************************************************)
passed_count(rs) == Cardinality({i \in DOMAIN rs : rs[i].passed})
total_count(rs) == Len(rs)

\* a print_results that is content with one passed check
ExitCodeAnyPassed(rs) == IF passed_count(rs) > 0 THEN 0 ELSE 1

\* the value print_results returns (lines 445-480)
ExitCode(rs) == IF passed_count(rs) = total_count(rs) THEN 0 ELSE 1

PrintResults ==
    /\ pc = "print"
    /\ exit_code' = Some(ExitCode(results))
    /\ pc' = "exited"
    /\ UNCHANGED <<argv, results, http_log, calls, faults>>
    /\ TesterUnchanged /\ CrudLocalsUnchanged

(***************************************************************************)
(* The process.  A provider population p gives the command lines tried and *)
(* the responses each endpoint may give.                                   *)
(***************************************************************************)
InitWith(args) ==
    /\ pc = "main"
    /\ argv \in args
    /\ tester = FALSE
    /\ ngrok_url = None
    /\ discovery_url = None
    /\ metadata = None
    /\ results = <<>>
    /\ http_log = <<>>
    /\ calls = <<>>
    /\ faults = <<>>
    /\ client_id = None
    /\ reg_token = None
    /\ get_url = None
    /\ exit_code = None

NextWith(p) ==
    \/ Main
    \/ TestDiscoveryStart
    \/ TestDiscoveryResp(p.discovery)
    \/ Gate
    \/ TestJwksStart
    \/ TestJwksResp(p.jwks)
    \/ TestRegistrationStart
    \/ TestRegistrationResp(p.registration)
    \/ TestCrudStart
    \/ TestCrudCreateResp(p.create)
    \/ TestCrudReadResp(p.read)
    \/ TestCrudUpdateResp(p.update)
    \/ TestCrudDeleteResp(p.delete)
    \/ TestMetadataCompliance
    \/ PrintResults

(***************************************************************************)
(* A caller other than main: it constructs a ConformanceTester and calls   *)
(* the test_* methods itself, in any order, keeping the results returned.  *)
(***************************************************************************)
\* tester = ConformanceTester(url)
Construct ==
    /\ pc = "main"
    /\ argv # <<>>
    /\ LET t == InitTester(argv[1])
       IN  /\ tester' = TRUE
           /\ ngrok_url' = t.ngrok_url
           /\ discovery_url' = t.discovery_url
           /\ metadata' = t.metadata
    /\ pc' = "idle"
    /\ UNCHANGED <<argv, results, http_log, calls, faults, exit_code>>
    /\ CrudLocalsUnchanged

\* the positions at which no check is executing
BetweenChecks == {"idle", "gate", "jwks", "registration", "crud", "compliance", "print"}
CheckEntries == {"discovery", "jwks", "registration", "crud", "compliance"}

\* the caller picks the method it calls next
Invoke ==
    /\ pc \in BetweenChecks
    /\ Len(calls) < MaxCalls
    /\ \E entry \in CheckEntries \ {pc} : pc' = entry
    /\ UNCHANGED <<argv, results, http_log, calls, faults, exit_code>>
    /\ TesterUnchanged /\ CrudLocalsUnchanged

NextCalling(p) ==
    \/ Construct
    \/ Invoke
    \/ TestDiscoveryStart
    \/ TestDiscoveryResp(p.discovery)
    \/ TestJwksStart
    \/ TestJwksResp(p.jwks)
    \/ TestRegistrationStart
    \/ TestRegistrationResp(p.registration)
    \/ TestCrudStart
    \/ TestCrudCreateResp(p.create)
    \/ TestCrudReadResp(p.read)
    \/ TestCrudUpdateResp(p.update)
    \/ TestCrudDeleteResp(p.delete)
    \/ TestMetadataCompliance

(***************************************************************************)
(* Provider populations.                                                   *)
(***************************************************************************)
Url(u) == <<u>>
BaseH == <<"h">>
BaseHSlash == <<"h", "/">>

OptionalSet == {"registration_endpoint", "grant_types_supported",
                "token_endpoint_auth_methods_supported", "scopes_supported"}

\* every document over the required keys, with every issuer up to MaxUrlLen
AllDocs ==
    {Restrict(GoodDoc(iss), req \cup OptionalSet) :
        iss \in StringsUpTo(MaxUrlLen), req \in SUBSET Range(required_fields)}

\* documents of a provider whose issuer is iss, conformant or not downstream
DocVariants(iss) ==
    LET d == GoodDoc(iss)
    IN  {d,
         Without(d, {"registration_endpoint"}),
         [d EXCEPT !["registration_endpoint"] = <<>>],
         [d EXCEPT !["jwks_uri"] = <<>>],
         [d EXCEPT !["scopes_supported"] = <<"profile">>,
                   !["id_token_signing_alg_values_supported"] = <<"ES256">>],
         Without([d EXCEPT !["response_types_supported"] = <<"token">>,
                           !["subject_types_supported"] = <<>>],
                 {"grant_types_supported", "scopes_supported",
                  "token_endpoint_auth_methods_supported"}),
         Without(d, {"jwks_uri"}),
         Without(d, {"issuer", "token_endpoint"}),
         Without(d, DOMAIN d)}

GoodJwk == Jwk({"kty", "use", "kid", "alg"})
KeySet(keys) == [keys |-> keys]
EmptyObject == <<>>

\* every key set of at most MaxKeys keys, each key holding any of the four fields
RECURSIVE KeySeqs(_)
KeySeqs(n) ==
    IF n = 0 THEN {<<>>}
    ELSE LET shorter == KeySeqs(n - 1)
         IN  shorter \cup
             {Append(ks, Jwk(f)) : ks \in {t \in shorter : Len(t) = n - 1},
                                   f \in SUBSET {"kty", "use", "kid", "alg"}}

AllJwks == {EmptyObject} \cup {KeySet(ks) : ks \in KeySeqs(MaxKeys)}

SomeJwks ==
    {EmptyObject, KeySet(<<>>), KeySet(<<GoodJwk>>), KeySet(<<Jwk({"kty", "use", "kid"})>>),
     KeySet(<<GoodJwk, Jwk({"kty", "use"})>>), KeySet(<<Jwk({"kid", "alg"}), Jwk({})>>)}

ShortId == <<"a", "b", "c", "1", "2", "3">>
LongId == <<"c", "l", "i", "e", "n", "t", "-", "0", "0", "1">>
OtherId == <<"z">>

ClientValues ==
    [client_id |-> ShortId,
     client_secret |-> <<"s3cret">>,
     token_endpoint_auth_method |-> <<"client_secret_basic">>,
     registration_access_token |-> <<"tok">>,
     redirect_uris |-> <<"https://example.com/callback">>]

RegistrationKeys ==
    {"client_id", "client_secret", "token_endpoint_auth_method", "registration_access_token"}

\* every registration response over the four keys the check reads
AllClients ==
    {Restrict([ClientValues EXCEPT !["token_endpoint_auth_method"] = m], ks) :
        m \in {<<"client_secret_basic">>, <<"none">>}, ks \in SUBSET RegistrationKeys}

SomeClients ==
    {ClientValues,
     [ClientValues EXCEPT !["client_id"] = LongId],
     Without(ClientValues, {"client_secret"}),
     Without(ClientValues, {"client_secret", "token_endpoint_auth_method"}),
     Without([ClientValues EXCEPT !["token_endpoint_auth_method"] = <<"none">>],
             {"client_secret"}),
     Without(ClientValues, {"client_id"})}

CreatedClients ==
    {ClientValues,
     [ClientValues EXCEPT !["client_id"] = LongId, !["registration_access_token"] = <<"tok2">>],
     Without(ClientValues, {"registration_access_token"}),
     [ClientValues EXCEPT !["registration_access_token"] = <<>>],
     Without(ClientValues, {"client_id"}),
     Without(ClientValues, {"client_id", "registration_access_token"})}

RetrievedClients ==
    {ClientValues,
     [ClientValues EXCEPT !["client_id"] = LongId, !["registration_access_token"] = <<"tok3">>],
     [ClientValues EXCEPT !["client_id"] = OtherId],
     Without(ClientValues, {"client_id"})}

TwoUris == <<"https://example.com/callback", "https://example.com/cb2">>

UpdatedClients ==
    {[ClientValues EXCEPT !["redirect_uris"] = TwoUris],
     [ClientValues EXCEPT !["redirect_uris"] = TwoUris, !["client_id"] = OtherId,
                          !["registration_access_token"] = <<"tok4">>],
     ClientValues,
     [ClientValues EXCEPT !["redirect_uris"] = Append(TwoUris, "https://example.com/cb3")],
     [ClientValues EXCEPT !["redirect_uris"] = <<>>],
     Without(ClientValues, {"redirect_uris"})}

Ok(bodies) == {Http(200, b) : b \in bodies}

DeleteResponses ==
    {ConnError, Timeout, BadJson(204), Http(204, EmptyObject), Http(200, EmptyObject),
     BadJson(202), Http(404, EmptyObject), BadJson(500)}

\* a provider that answers every request as the protocol asks
Conformant ==
    [argv |-> {<<BaseH>>},
     discovery |-> Ok({GoodDoc(BaseH)}),
     jwks |-> Ok({KeySet(<<GoodJwk>>)}),
     registration |-> {Http(201, ClientValues)},
     create |-> {Http(201, ClientValues)},
     read |-> Ok({ClientValues}),
     update |-> Ok({[ClientValues EXCEPT !["redirect_uris"] = TwoUris]}),
     delete |-> {BadJson(204)}]

\* providers of every kind, a few of each
Providers ==
    [argv |-> {<<>>, <<BaseH>>, <<BaseHSlash>>},
     discovery |-> TransportFailures
                   \cup Ok(DocVariants(BaseH) \cup DocVariants(BaseHSlash)),
     jwks |-> TransportFailures \cup Ok(SomeJwks),
     registration |-> TransportFailures \cup Ok(SomeClients),
     create |-> TransportFailures \cup Ok(CreatedClients),
     read |-> TransportFailures \cup Ok(RetrievedClients),
     update |-> TransportFailures \cup Ok(UpdatedClients),
     delete |-> DeleteResponses]

\* every command line and every discovery document, the rest conformant
DiscoveryProviders ==
    [Conformant EXCEPT
        !.argv = {<<>>} \cup {<<u>> : u \in StringsUpTo(MaxUrlLen)},
        !.discovery = TransportFailures \cup Ok(AllDocs)]

\* every key set, the rest conformant
JwksProviders == [Conformant EXCEPT !.jwks = TransportFailures \cup Ok(AllJwks)]

\* every registration response, the rest conformant
RegistrationProviders ==
    [Conformant EXCEPT !.registration = TransportFailures \cup Ok(AllClients)]

Init == InitWith(Providers.argv)
Next == NextWith(Providers)
Spec == Init /\ [][Next]_vars

InitDiscovery == InitWith(DiscoveryProviders.argv)
NextDiscovery == NextWith(DiscoveryProviders)
SpecDiscovery == InitDiscovery /\ [][NextDiscovery]_vars

InitJwks == InitWith(JwksProviders.argv)
NextJwks == NextWith(JwksProviders)
SpecJwks == InitJwks /\ [][NextJwks]_vars

InitRegistration == InitWith(RegistrationProviders.argv)
NextRegistration == NextWith(RegistrationProviders)
SpecRegistration == InitRegistration /\ [][NextRegistration]_vars

\* a document with one key set to a value, or removed
With(doc, key, value) ==
    IF value = None THEN Without(doc, {key}) ELSE [doc EXCEPT ![key] = value[1]]

\* documents that pass Discovery, with every combination of the values that
\* test_metadata_compliance reads
ComplianceDocs ==
    {With(With(With(
        [GoodDoc(BaseH) EXCEPT !["response_types_supported"] = rt,
                               !["subject_types_supported"] = st,
                               !["id_token_signing_alg_values_supported"] = alg],
        "grant_types_supported", gt),
        "token_endpoint_auth_methods_supported", am),
        "scopes_supported", sc) :
     rt \in {<<>>, <<"code">>, <<"token">>, <<"token", "code">>},
     st \in {<<>>, <<"public">>},
     alg \in {<<>>, <<"RS256">>, <<"ES256">>},
     gt \in {None, Some(<<>>), Some(<<"authorization_code">>), Some(<<"implicit">>)},
     am \in {None, Some(<<>>), Some(<<"client_secret_basic">>)},
     sc \in {None, Some(<<>>), Some(<<"openid">>), Some(<<"profile">>),
             Some(<<"profile", "openid">>)}}

\* every compliance-relevant document, the rest conformant
ComplianceProviders ==
    [Conformant EXCEPT !.discovery = TransportFailures \cup Ok(ComplianceDocs)]

InitCompliance == InitWith(ComplianceProviders.argv)
NextCompliance == NextWith(ComplianceProviders)
SpecCompliance == InitCompliance /\ [][NextCompliance]_vars

\* discovery answers of each kind to a caller of the methods, the rest conformant
CallerProviders ==
    [Conformant EXCEPT
        !.discovery = {ConnError, BadJson(200), Http(500, EmptyObject)}
                      \cup Ok({GoodDoc(BaseH), GoodDoc(BaseHSlash), EmptyObject,
                               Without(GoodDoc(BaseH), {"token_endpoint"}),
                               Without(GoodDoc(BaseH), {"jwks_uri"}),
                               Without(GoodDoc(BaseHSlash), {"registration_endpoint"})})]

InitCaller == InitWith(CallerProviders.argv)
NextCaller == NextCalling(CallerProviders)
SpecCaller == InitCaller /\ [][NextCaller]_vars

(***************************************************************************)
(* Properties.                                                             *)
(***************************************************************************)
CheckOrder == <<DiscoveryName, JwksName, RegistrationName, CrudName, ComplianceName>>

Returned == pc \in {"print", "exited"} /\ tester
\* the exchange returned a response whose status was not raised and whose body parsed
Parsed(e) == e.resp.kind = "http" /\ e.resp.status < 400 /\ e.resp.json
Exchanges(name) == SelectSeq(http_log, LAMBDA e : e.check = name)
StartsWith(message, text) == message # <<>> /\ message[1] = text

\* C1: Discovery gate.  Whenever the first result is a failed one, the list
\* holds that one result, it is the Discovery result, no other check has been
\* entered, and the only request ever issued is the GET of the discovery URL;
\* this is still so when run_all_tests has returned and the process has exited.
C1_DiscoveryGate ==
    (results # <<>> /\ ~results[1].passed) =>
        /\ Len(results) = 1
        /\ results[1].name = DiscoveryName
        /\ calls = <<DiscoveryName>>
        /\ Len(http_log) = 1
        /\ http_log[1].check = DiscoveryName
        /\ http_log[1].method = "GET"
        /\ http_log[1].url = discovery_url
        /\ pc \in {"gate", "print", "exited"}

C1_Witness ==
    /\ pc = "exited"
    /\ Len(results) = 1
    /\ ~results[1].passed
    /\ StartsWith(results[1].message, "Issuer mismatch: ")

\* C2: if Discovery passes, the run returns exactly five results in the order
\* Discovery, JWKS, Registration, Registration-CRUD, Metadata-Compliance,
\* whatever the later checks report; the checks are entered in that order,
\* each once, and a check is entered only when every earlier one has returned.
C2_FiveResultsInOrder ==
    /\ Len(calls) <= 5
    /\ \A i \in DOMAIN calls : calls[i] = CheckOrder[i]
    /\ Len(results) \in {Len(calls) - 1, Len(calls)}
    /\ \A i \in DOMAIN results : results[i].name = CheckOrder[i]
    /\ (Len(results) = Len(calls) - 1) =>
           pc \in {"discovery_wait", "jwks_wait", "registration_wait",
                   "crud_create", "crud_read", "crud_update", "crud_delete"}
    /\ (Returned /\ results[1].passed) => (Len(results) = 5 /\ calls = CheckOrder)

C2_Witness ==
    /\ pc = "exited"
    /\ Len(results) = 5
    /\ results[1].passed
    /\ StartsWith(results[2].message, "Failed: ")
    /\ ~results[3].passed
    /\ results[4].passed
    /\ ~results[5].passed

\* C3: the exit code.  With a base URL the process exits 0 exactly when
\* every returned result passed and 1 exactly when some result failed; with
\* no argument it exits 1, no tester was constructed and no request was sent.
C3_ExitCode ==
    /\ (pc # "exited") => exit_code = None
    /\ (pc = "exited") =>
          IF argv = <<>>
          THEN exit_code = Some(1) /\ ~tester /\ http_log = <<>> /\ calls = <<>>
          ELSE /\ tester /\ results # <<>>
               /\ exit_code \in {Some(0), Some(1)}
               /\ (exit_code = Some(0)) <=> (\A i \in DOMAIN results : results[i].passed)
               /\ (exit_code = Some(1)) <=> (\E i \in DOMAIN results : ~results[i].passed)

C3_Witness ==
    /\ pc = "exited"
    /\ exit_code = Some(1)
    /\ Len(results) = 5
    /\ results[1].passed /\ results[2].passed /\ results[3].passed /\ results[5].passed
    /\ ~results[4].passed

IndexOf(name) == CHOOSE k \in DOMAIN CheckOrder : CheckOrder[k] = name
ResultFor(e) == results[IndexOf(e.check)]
HasResult(e) == Len(results) >= IndexOf(e.check)
Is2xx(r) == r.status >= 200 /\ r.status < 300

\* C4, as claimed: a connection error, a timeout, a non-2xx status or an
\* unparseable body in any exchange of any check gives that check a failed
\* result with the check's name and a message "Failed: <cause>".  (A DELETE
\* has no body to parse, so only its status and its transport count.)
C4_TransportFailureAlwaysFailedMessage ==
    \A i \in DOMAIN http_log :
        LET e == http_log[i]
        IN  (\/ e.resp.kind \in {"conn_error", "timeout"}
             \/ e.resp.kind = "http" /\ ~Is2xx(e.resp)
             \/ e.resp.kind = "http" /\ ~e.resp.json /\ e.method # "DELETE")
            => /\ HasResult(e)
               /\ ResultFor(e).name = e.check
               /\ ~ResultFor(e).passed
               /\ StartsWith(ResultFor(e).message, "Failed: ")

\* what an exchange raises: any connection error or timeout, and for every
\* request but the DELETE a 4xx or 5xx status or an unparseable body
RaisedBy(e) ==
    \/ e.resp.kind \in {"conn_error", "timeout"}
    \/ e.resp.kind = "http" /\ e.method # "DELETE"
           /\ (e.resp.status >= 400 \/ ~e.resp.json)

\* C4, amended: fault isolation.  Whatever an exchange raises (a connection
\* error, a timeout, and but for the DELETE a 4xx or 5xx status or an
\* unparseable body) becomes a failed result with the check's own name and the
\* message "Failed: <cause>"; a status other than 204 on the DELETE is not
\* raised and becomes the failed result "Delete returned <status>, expected
\* 204" of the CRUD check.  Every caught fault is a result, the run still
\* returns five results when Discovery passed, and a later check given
\* conformant answers still passes.
C4_FaultIsolation ==
    /\ \A i \in DOMAIN http_log :
        LET e == http_log[i]
        IN  /\ RaisedBy(e) =>
                /\ HasResult(e)
                /\ ResultFor(e).name = e.check
                /\ ~ResultFor(e).passed
                /\ StartsWith(ResultFor(e).message, "Failed: ")
                /\ Len(ResultFor(e).message) > 1
                /\ \E j \in DOMAIN faults :
                       /\ faults[j].check = e.check
                       /\ ResultFor(e).message = <<"Failed: ">> \o faults[j].cause
            /\ (e.method = "DELETE" /\ e.resp.kind = "http" /\ e.resp.status # 204) =>
                /\ HasResult(e)
                /\ ResultFor(e).name = CrudName
                /\ ~ResultFor(e).passed
                /\ ResultFor(e).message =
                       <<"Delete returned ", ToString(e.resp.status), ", expected 204">>
    /\ \A j \in DOMAIN faults :
        /\ Len(results) >= IndexOf(faults[j].check)
        /\ results[IndexOf(faults[j].check)].message = <<"Failed: ">> \o faults[j].cause
    /\ (Returned /\ results[1].passed) => Len(results) = 5
    /\ \A i \in DOMAIN http_log :
        LET e == http_log[i]
        IN  /\ (e.check = JwksName /\ e.resp = Http(200, KeySet(<<GoodJwk>>)))
                => results[2].passed
            /\ (e.check = RegistrationName /\ e.resp = Http(200, ClientValues))
                => results[3].passed
            /\ (e.method = "DELETE" /\ e.resp.kind = "http" /\ e.resp.status = 204)
                => results[4].passed
    /\ (Len(results) = 5 /\ metadata = Some(GoodDoc(BaseH))) => results[5].passed

C4_Witness ==
    /\ pc = "exited"
    /\ Len(results) = 5
    /\ StartsWith(results[2].message, "Failed: ")
    /\ results[3].passed
    /\ StartsWith(results[4].message, "Failed: ")
    /\ results[5].passed

\* C5: the cached metadata is assigned only by the step of the Discovery
\* check that receives the document; once Discovery has returned no step
\* changes it, and once the tester is constructed no step changes ngrok_url
\* or discovery_url.
C5_MetadataWriteOnce ==
    [][/\ (metadata' # metadata) => (pc = "discovery_wait" /\ pc' = "gate")
       /\ (results # <<>>) => (metadata' = metadata)
       /\ tester => (tester' /\ ngrok_url' = ngrok_url /\ discovery_url' = discovery_url)
      ]_vars

C5_Witness ==
    /\ pc = "exited"
    /\ Len(results) = 5
    /\ metadata # None
    /\ "grant_types_supported" \notin DOMAIN metadata[1]
    /\ Len(http_log) = 7

\* the names a ', '-joined message lists after its first n tokens
Listed(message, n) == {message[i] : i \in (n + 1)..Len(message)} \ {", "}

\* s is u without its trailing slashes
StrippedOf(s, u) ==
    /\ Len(s) <= Len(u)
    /\ SubSeq(u, 1, Len(s)) = s
    /\ \A i \in (Len(s) + 1)..Len(u) : u[i] = "/"
    /\ s = <<>> \/ s[Len(s)] # "/"

RequiredSet == Range(required_fields)

\* C6: Discovery classification.  For a fetched document the check passes
\* exactly when the seven required keys are present and issuer is the base URL
\* without its trailing slashes.  Otherwise exactly one of two messages is
\* reported: "Missing required fields: " with exactly the missing keys as soon
\* as a key is missing (whatever the issuer), and "Issuer mismatch: " only
\* when all seven are present and the issuer differs.
C6_DiscoveryClassification ==
    (results # <<>> /\ Parsed(http_log[1])) =>
        LET doc == http_log[1].resp.body
            res == results[1]
            absent == RequiredSet \ DOMAIN doc
            matches == "issuer" \in DOMAIN doc /\ StrippedOf(doc["issuer"], argv[1])
        IN  /\ res.passed <=> (absent = {} /\ matches)
            /\ res.passed => res.message = <<"All required fields present">>
            /\ (absent # {}) =>
                  /\ StartsWith(res.message, "Missing required fields: ")
                  /\ Listed(res.message, 1) = absent
                  /\ Len(res.message) = 2 * Cardinality(absent)
            /\ StartsWith(res.message, "Issuer mismatch: ") <=> (absent = {} /\ ~matches)
            /\ Cardinality({t \in {"All required fields present",
                                   "Missing required fields: ", "Issuer mismatch: "} :
                               StartsWith(res.message, t)}) = 1

C6_Witness ==
    /\ results # <<>>
    /\ Parsed(http_log[1])
    /\ StartsWith(results[1].message, "Missing required fields: ")
    /\ "issuer" \in DOMAIN http_log[1].resp.body
    /\ http_log[1].resp.body["issuer"] # ngrok_url
    /\ Cardinality(RequiredSet \ DOMAIN http_log[1].resp.body) = 3

\* C7: trailing-slash normalisation.  The discovery URL and the issuer
\* comparison both use the base URL without its trailing slashes: requested
\* as "h/", a complete document with issuer "h" passes and is fetched from
\* "h" + "/.well-known/openid-configuration", and a complete document whose
\* issuer ends in a slash fails with "Issuer mismatch" whatever the base URL.
C7_TrailingSlash ==
    /\ (http_log # <<>>) =>
          \E s \in StringsUpTo(Len(argv[1])) :
              StrippedOf(s, argv[1]) /\ http_log[1].url = s \o WellKnown
    /\ (results # <<>> /\ Parsed(http_log[1])
        /\ RequiredSet \subseteq DOMAIN http_log[1].resp.body) =>
          LET issuer == http_log[1].resp.body["issuer"]
          IN  /\ (argv = <<BaseHSlash>> /\ issuer = BaseH) => results[1].passed
              /\ (argv = <<BaseHSlash>> /\ issuer = BaseHSlash) =>
                     results[1].message =
                         <<"Issuer mismatch: ", "h", "/", " != ", "h">>
              /\ (issuer # <<>> /\ issuer[Len(issuer)] = "/") =>
                     StartsWith(results[1].message, "Issuer mismatch: ")

C7_Witness ==
    /\ argv = <<BaseHSlash>>
    /\ results # <<>>
    /\ results[1].passed
    /\ http_log[1].resp.body["issuer"] = BaseH

JwksExchange == Exchanges(JwksName)[1]
KeyRequired == {"kty", "use", "kid"}
Lacking(key) == KeyRequired \ DOMAIN key

\* C8: JWKS fail-fast.  For a fetched key set with at least one key the check
\* passes exactly when every key has kty, use and kid (alg plays no part);
\* otherwise the message names the lowest index, counted from 0, of a key
\* lacking a field, and exactly the fields that key lacks.  Keys
\* [{kty,use,kid},{kty,use}] give "Key 1 missing fields: kid".  A missing
\* "keys" field and an empty key list fail with their own messages.
C8_JwksFailFast ==
    (Len(results) >= 2 /\ Exchanges(JwksName) # <<>> /\ Parsed(JwksExchange)) =>
        LET jwks == JwksExchange.resp.body
            res == results[2]
        IN  IF "keys" \notin DOMAIN jwks
            THEN ~res.passed /\ res.message = <<"JWKS missing 'keys' field">>
            ELSE IF jwks["keys"] = <<>>
            THEN ~res.passed /\ res.message = <<"JWKS has no keys">>
            ELSE LET keys == jwks["keys"]
                     bad == {i \in DOMAIN keys : Lacking(keys[i]) # {}}
                 IN  /\ res.passed <=> (bad = {})
                     /\ (bad # {}) =>
                           LET first == CHOOSE i \in bad : \A j \in bad : i <= j
                           IN  /\ res.message[1] = "Key "
                               /\ res.message[2] = ToString(first - 1)
                               /\ res.message[3] = " missing fields: "
                               /\ Listed(res.message, 3) = Lacking(keys[first])
                               /\ Len(res.message) = 2 + 2 * Cardinality(Lacking(keys[first]))
                     /\ (keys = <<Jwk({"kty", "use", "kid"}), Jwk({"kty", "use"})>>) =>
                           res.message = <<"Key ", "1", " missing fields: ", "kid">>

C8_Witness ==
    /\ Len(results) >= 2
    /\ Exchanges(JwksName) # <<>>
    /\ JwksExchange.resp = Http(200, KeySet(<<Jwk({"kty", "use", "kid"}), Jwk({"kty", "use"})>>))
    /\ ~results[2].passed

RegistrationExchange == Exchanges(RegistrationName)[1]

\* C9: registration secret policy.  For a response holding client_id the check
\* fails with "Missing client_secret for confidential client" exactly when
\* client_secret is absent and token_endpoint_auth_method is absent or not
\* "none", and passes otherwise; a response without client_id fails with the
\* missing-fields message whatever else it holds.  A response of client_id and
\* client_secret_basic alone fails for the missing secret.
C9_RegistrationSecretPolicy ==
    (Len(results) >= 3 /\ Exchanges(RegistrationName) # <<>> /\ Parsed(RegistrationExchange)) =>
        LET client == RegistrationExchange.resp.body
            res == results[3]
            secret == "client_secret" \in DOMAIN client
            public == /\ "token_endpoint_auth_method" \in DOMAIN client
                      /\ client["token_endpoint_auth_method"] = <<"none">>
        IN  IF "client_id" \in DOMAIN client
            THEN /\ (res.message = <<"Missing client_secret for confidential client">>)
                        <=> (~secret /\ ~public)
                 /\ res.passed <=> (secret \/ public)
                 /\ (client = [client_id |-> ShortId,
                               token_endpoint_auth_method |-> <<"client_secret_basic">>])
                        => (~res.passed /\ res.message =
                                <<"Missing client_secret for confidential client">>)
            ELSE /\ ~res.passed
                 /\ res.message = <<"Response missing fields: ", "client_id">>

C9_Witness ==
    /\ Len(results) >= 3
    /\ Exchanges(RegistrationName) # <<>>
    /\ RegistrationExchange.resp.body = [client_id |-> ShortId]
    /\ results[3].message = <<"Missing client_secret for confidential client">>

CrudOrder == <<"POST", "GET", "PUT", "DELETE">>

\* C10: CRUD sub-step order and short-circuit.  The requests of the CRUD check
\* are a prefix of POST, GET, PUT, DELETE; the GET is sent only after a create
\* response with client_id and a registration_access_token, the PUT only
\* after a read response with the same client_id, the DELETE only after an
\* update response with exactly two redirect_uris; a check that returned
\* without its DELETE accepted has failed.  An update response with one
\* redirect URI fails with "Client update failed" and no DELETE is sent.
C10_CrudOrder ==
    LET crud == Exchanges(CrudName)
    IN  /\ Len(crud) <= 4
        /\ \A i \in DOMAIN crud : crud[i].method = CrudOrder[i]
        /\ (Len(crud) >= 2) =>
              /\ Parsed(crud[1])
              /\ "client_id" \in DOMAIN crud[1].resp.body
              /\ "registration_access_token" \in DOMAIN crud[1].resp.body
              /\ crud[1].resp.body["registration_access_token"] # <<>>
        /\ (Len(crud) >= 3) =>
              /\ Parsed(crud[2])
              /\ "client_id" \in DOMAIN crud[2].resp.body
              /\ crud[2].resp.body["client_id"] = crud[1].resp.body["client_id"]
        /\ (Len(crud) >= 4) =>
              /\ Parsed(crud[3])
              /\ "redirect_uris" \in DOMAIN crud[3].resp.body
              /\ Len(crud[3].resp.body["redirect_uris"]) = 2
        /\ (Len(results) >= 4) =>
              /\ \A i \in DOMAIN crud : crud[i].resp # Pending
              /\ results[4].passed <=>
                    (Len(crud) = 4 /\ crud[4].resp.kind = "http" /\ crud[4].resp.status = 204)
        /\ (/\ Len(crud) >= 3 /\ Parsed(crud[3])
            /\ "redirect_uris" \in DOMAIN crud[3].resp.body
            /\ Len(crud[3].resp.body["redirect_uris"]) = 1) =>
              /\ Len(crud) = 3
              /\ Len(results) >= 4
              /\ ~results[4].passed
              /\ results[4].message = <<"Client update failed">>

C10_Witness ==
    LET crud == Exchanges(CrudName)
    IN  /\ pc = "exited"
        /\ Len(crud) = 3
        /\ Parsed(crud[3])
        /\ "redirect_uris" \in DOMAIN crud[3].resp.body
        /\ Len(crud[3].resp.body["redirect_uris"]) = 1
        /\ results[4].message = <<"Client update failed">>


\* the rules of the Metadata-Compliance check, by number, as the
\* specification lists them
ComplianceRules == 1..6
RuleViolated(doc, k) ==
    CASE k = 1 -> ~("response_types_supported" \in DOMAIN doc
                    /\ "code" \in Range(doc["response_types_supported"]))
      [] k = 2 -> ~("grant_types_supported" \in DOMAIN doc
                    /\ "authorization_code" \in Range(doc["grant_types_supported"]))
      [] k = 3 -> ~("token_endpoint_auth_methods_supported" \in DOMAIN doc
                    /\ doc["token_endpoint_auth_methods_supported"] # <<>>)
      [] k = 4 -> ~("scopes_supported" \in DOMAIN doc
                    /\ "openid" \in Range(doc["scopes_supported"]))
      [] k = 5 -> ~("subject_types_supported" \in DOMAIN doc
                    /\ doc["subject_types_supported"] # <<>>)
      [] k = 6 -> ~("id_token_signing_alg_values_supported" \in DOMAIN doc
                    /\ "RS256" \in Range(doc["id_token_signing_alg_values_supported"]))
RuleIssues(k) ==
    CASE k = 1 -> { <<"Missing 'code' in response_types_supported">> }
      [] k = 2 -> { <<"Missing 'authorization_code' in grant_types_supported">> }
      [] k = 3 -> { <<"No token_endpoint_auth_methods_supported">> }
      [] k = 4 -> { <<"No scopes_supported">>, <<"Missing 'openid' scope">> }
      [] k = 5 -> { <<"No subject_types_supported">> }
      [] k = 6 -> { <<"Missing 'RS256' in id_token_signing_alg_values_supported">> }
ViolatedRules(doc) == {k \in ComplianceRules : RuleViolated(doc, k)}

\* C11: the Metadata-Compliance result lists one issue for each of the six
\* rules the cached document violates and none for a rule it satisfies (the
\* scopes rule gives one issue at most), in the order of the rules; the number
\* in its message is the length of that list; the check passes exactly when
\* no rule is violated; a document violating only the openid and RS256 rules
\* gives a list of length 2.
C11_ComplianceAccumulates ==
    (Len(results) = 5 /\ metadata # None) =>
        LET doc == metadata[1]
            r == results[5]
            issues == IF r.details.kind = "issues" THEN r.details.list ELSE <<>>
            rule(i) == CHOOSE k \in ComplianceRules : issues[i] \in RuleIssues(k)
        IN  /\ r.name = ComplianceName
            /\ r.passed <=> ViolatedRules(doc) = {}
            /\ r.passed <=> issues = <<>>
            /\ Len(issues) = Cardinality(ViolatedRules(doc))
            /\ \A i \in DOMAIN issues : \E k \in ViolatedRules(doc) : issues[i] \in RuleIssues(k)
            /\ \A k \in ViolatedRules(doc) :
                   Cardinality({i \in DOMAIN issues : issues[i] \in RuleIssues(k)}) = 1
            /\ \A i, j \in DOMAIN issues : i < j => rule(i) < rule(j)
            /\ ~r.passed =>
                   r.message = <<"Found ", ToString(Len(issues)), " compliance issue(s)">>
            /\ ViolatedRules(doc) = {4, 6} => Len(issues) = 2

C11_Witness ==
    /\ Len(results) = 5
    /\ metadata # None
    /\ ViolatedRules(metadata[1]) = {4, 6}
    /\ results[5].message = <<"Found ", "2", " compliance issue(s)">>
    /\ results[5].details.list =
           << <<"Missing 'openid' scope">>,
              <<"Missing 'RS256' in id_token_signing_alg_values_supported">> >>

\* C12: the metadata cache is populated only when Discovery succeeds: in
\* every state, a cache that is set implies that the Discovery result exists
\* and is a passed one; after a failed Discovery (missing fields, issuer
\* mismatch or transport failure) on a fresh tester the cache is still unset.
C12_CacheOnlyOnSuccess ==
    /\ metadata # None => (results # <<>> /\ results[1].passed)
    /\ (results # <<>> /\ ~results[1].passed) => metadata = None

\* no Discovery call on this tester has returned a passed result
DiscoveryNeverPassed ==
    ~ \E i \in DOMAIN results : calls[i] = DiscoveryName /\ results[i].passed

\* C13: as long as Discovery has not succeeded on a tester (never called, or
\* called and failed for any reason), every call of the JWKS, Registration,
\* Registration-CRUD or Metadata-Compliance check returns the failed result
\* "Discovery must pass first" and no HTTP request is issued by those checks.
C13_PreconditionOnDiscoverySuccess ==
    DiscoveryNeverPassed =>
        /\ \A i \in DOMAIN results :
               calls[i] # DiscoveryName =>
                   /\ results[i].name = calls[i]
                   /\ ~results[i].passed
                   /\ results[i].message = <<"Discovery must pass first">>
        /\ \A i \in DOMAIN http_log : http_log[i].check = DiscoveryName

NoRegistrationEndpoint(doc) ==
    "registration_endpoint" \notin DOMAIN doc \/ doc["registration_endpoint"] = <<>>

\* C14: when Discovery has passed with a document that has no
\* registration_endpoint (absent, or empty), the Registration and the
\* Registration-CRUD results are both the failure "No registration_endpoint in
\* discovery" and no POST, PUT or DELETE and no request of those two checks is
\* ever issued; the JWKS and Metadata-Compliance checks still run and report
\* what the key set received and the document deserve; the run ends with five
\* results and exit code 1.
C14_NoRegistrationEndpoint ==
    (results # <<>> /\ results[1].passed /\ metadata # None
     /\ NoRegistrationEndpoint(metadata[1])) =>
        /\ Len(results) >= 3 =>
               results[3] = [name |-> RegistrationName, passed |-> FALSE,
                             message |-> <<"No registration_endpoint in discovery">>,
                             details |-> NoDetails]
        /\ Len(results) >= 4 =>
               results[4] = [name |-> CrudName, passed |-> FALSE,
                             message |-> <<"No registration_endpoint in discovery">>,
                             details |-> NoDetails]
        /\ \A i \in DOMAIN http_log :
               /\ http_log[i].method = "GET"
               /\ http_log[i].check \in {DiscoveryName, JwksName}
        /\ Len(results) >= 2 =>
               /\ Len(Exchanges(JwksName)) = 1
               /\ Exchanges(JwksName)[1].url = metadata[1]["jwks_uri"]
               /\ ~Parsed(Exchanges(JwksName)[1]) => StartsWith(results[2].message, "Failed: ")
               /\ (Parsed(Exchanges(JwksName)[1])
                   /\ Exchanges(JwksName)[1].resp.body = KeySet(<<GoodJwk>>)) =>
                      results[2].passed
        /\ Len(results) >= 5 =>
               /\ results[5].name = ComplianceName
               /\ results[5].passed <=> ViolatedRules(metadata[1]) = {}
        /\ pc = "exited" =>
               /\ Len(results) = 5
               /\ calls = CheckOrder
               /\ exit_code = Some(1)

C14_Witness ==
    /\ pc = "exited"
    /\ results # <<>> /\ results[1].passed
    /\ "registration_endpoint" \notin DOMAIN metadata[1]
    /\ results[2].passed
    /\ results[4].message = <<"No registration_endpoint in discovery">>
    /\ results[5].passed

\* the exchanges of the Registration-CRUD check, in the order issued
Crud == Exchanges(CrudName)

\* C15: within one Registration-CRUD execution the GET, the PUT and the DELETE
\* each go to <registration_endpoint>/<client_id>, client_id being the one of
\* that execution's create response, with the header "Authorization: Bearer
\* <registration_access_token>" of that same create response; identifiers and
\* tokens in the read and update responses never replace them.  The create
\* request itself goes to the registration endpoint without that header.
C15_CrudTargetAndCredential ==
    /\ Crud # <<>> =>
           /\ Crud[1].method = "POST"
           /\ Crud[1].url = metadata[1]["registration_endpoint"]
           /\ Crud[1].auth = None
    /\ \A i \in 2..Len(Crud) :
           /\ Parsed(Crud[1])
           /\ Crud[i].url = metadata[1]["registration_endpoint"] \o <<"/">>
                                \o Crud[1].resp.body["client_id"]
           /\ Crud[i].auth = <<"Bearer ">> \o Crud[1].resp.body["registration_access_token"]
           /\ Crud[i].auth # <<"Bearer ">>

C15_Witness ==
    /\ Len(Crud) = 4
    /\ Crud[4].method = "DELETE"
    /\ Parsed(Crud[2])
    /\ Crud[2].resp.body["registration_access_token"] #
           Crud[1].resp.body["registration_access_token"]
    /\ Parsed(Crud[3])
    /\ "client_id" \in DOMAIN Crud[3].resp.body
    /\ Crud[3].resp.body["client_id"] # Crud[1].resp.body["client_id"]
    /\ Crud[3].resp.body["registration_access_token"] #
           Crud[1].resp.body["registration_access_token"]

\* C16: once create, read and update have succeeded and the DELETE response
\* has arrived, the Registration-CRUD check passes exactly when its status is
\* 204; any other status (200, 202, 404, 500) gives the failed result "Delete
\* returned <status>, expected 204" with the status received, never "Failed:
\* <cause>".  A passed result, the one listing the four steps, exists only
\* when the POST, GET, PUT and DELETE were all issued and accepted.
C16_DeleteStatus ==
    /\ (Len(Crud) = 4 /\ Len(results) >= 4 /\ Crud[4].resp.kind = "http") =>
           /\ Crud[4].method = "DELETE"
           /\ results[4].passed <=> Crud[4].resp.status = 204
           /\ Crud[4].resp.status # 204 =>
                  /\ results[4].message =
                         <<"Delete returned ", ToString(Crud[4].resp.status), ", expected 204">>
                  /\ ~StartsWith(results[4].message, "Failed: ")
                  /\ results[4].details = NoDetails
    /\ (Len(results) >= 4 /\ (results[4].passed \/ results[4].details.kind = "steps")) =>
           /\ results[4].passed
           /\ results[4].details.list = <<<<"create">>, <<"read">>, <<"update">>, <<"delete">>>>
           /\ [i \in DOMAIN Crud |-> Crud[i].method] = <<"POST", "GET", "PUT", "DELETE">>
           /\ \A i \in 1..3 : Parsed(Crud[i])
           /\ Len(Crud[3].resp.body["redirect_uris"]) = 2
           /\ Crud[4].resp.kind = "http" /\ Crud[4].resp.status = 204

C16_Witness ==
    /\ Len(Crud) = 4
    /\ Len(results) >= 4
    /\ Crud[4].resp.kind = "http"
    /\ Crud[4].resp.status = 202
    /\ results[4].message = <<"Delete returned ", "202", ", expected 204">>

NoToken(client) ==
    "registration_access_token" \notin DOMAIN client
    \/ client["registration_access_token"] = <<>>

\* C17: when the create response of the Registration-CRUD check has a
\* client_id but no registration_access_token (absent or empty), the result is
\* the failure "No registration_access_token in response"; when it has no
\* client_id, with or without a token, the result is a failure with another
\* message, that of the missing key; in both cases the POST stays the only
\* request of the check.
C17_CreateResponseFailures ==
    (Crud # <<>> /\ Parsed(Crud[1])) =>
        LET client == Crud[1].resp.body
        IN  /\ ("client_id" \in DOMAIN client /\ NoToken(client)) =>
                   /\ Len(Crud) = 1
                   /\ Len(results) >= 4
                   /\ results[4] = [name |-> CrudName, passed |-> FALSE,
                                    message |-> <<"No registration_access_token in response">>,
                                    details |-> NoDetails]
            /\ "client_id" \notin DOMAIN client =>
                   /\ Len(Crud) = 1
                   /\ Len(results) >= 4
                   /\ results[4].name = CrudName
                   /\ ~results[4].passed
                   /\ results[4].message # <<"No registration_access_token in response">>
                   /\ results[4].message = <<"Failed: ", "'", "client_id", "'">>
            /\ ("client_id" \in DOMAIN client /\ ~NoToken(client)) =>
                   /\ Len(Crud) >= 2
                   /\ Crud[2].method = "GET"

C17_Witness ==
    /\ pc = "exited"
    /\ Crud # <<>> /\ Parsed(Crud[1])
    /\ "client_id" \notin DOMAIN Crud[1].resp.body
    /\ ~NoToken(Crud[1].resp.body)
    /\ results[4].message = <<"Failed: ", "'", "client_id", "'">>

Registration == Exchanges(RegistrationName)
Deletes == SelectSeq(http_log, LAMBDA e : e.method = "DELETE")

\* C18: the Registration check issues one POST and keeps nothing of the
\* client it created: outside an executing Registration-CRUD check no client
\* id, token or client URL is held.  The Registration-CRUD check creates its
\* own client with a POST of its own, issued after the Registration exchange;
\* every GET with credentials, PUT and DELETE belongs to the CRUD check and
\* carries the id and the token of the CRUD create response; a run issues one
\* DELETE at most; when the Registration client's id (or token) differs from
\* the CRUD client's, no request is addressed to it (or carries its token),
\* and its client_secret is never sent.
C18_ClientIsolation ==
    /\ Len(Registration) <= 1
    /\ \A i \in DOMAIN Registration :
           Registration[i].method = "POST" /\ Registration[i].auth = None
    /\ pc \notin {"crud_read", "crud_update", "crud_delete"} =>
           client_id = None /\ reg_token = None /\ get_url = None
    /\ Crud # <<>> =>
           /\ Crud[1].method = "POST"
           /\ \A i \in DOMAIN http_log :
                  http_log[i].check = RegistrationName =>
                      \A j \in DOMAIN http_log : http_log[j].check = CrudName => i < j
    /\ Len(Deletes) <= 1
    /\ \A i \in DOMAIN http_log :
           LET e == http_log[i]
           IN  (e.method \in {"PUT", "DELETE"} \/ e.auth # None) =>
                   /\ e.check = CrudName
                   /\ e.method # "POST"
                   /\ Parsed(Crud[1])
                   /\ e.url = metadata[1]["registration_endpoint"] \o <<"/">>
                                  \o Crud[1].resp.body["client_id"]
                   /\ e.auth = <<"Bearer ">> \o Crud[1].resp.body["registration_access_token"]
    /\ (Registration # <<>> /\ Parsed(Registration[1])) =>
           LET mine == Registration[1].resp.body
               theirs == IF Crud # <<>> /\ Parsed(Crud[1]) THEN Crud[1].resp.body
                         ELSE EmptyObject
           IN  \A i \in DOMAIN http_log :
                   /\ ("client_id" \in DOMAIN mine
                       /\ Get(theirs, "client_id", None) # mine["client_id"]) =>
                          http_log[i].url # metadata[1]["registration_endpoint"] \o <<"/">>
                                                \o mine["client_id"]
                   /\ ("registration_access_token" \in DOMAIN mine
                       /\ Get(theirs, "registration_access_token", None)
                              # mine["registration_access_token"]) =>
                          http_log[i].auth # <<"Bearer ">> \o mine["registration_access_token"]
                   /\ "client_secret" \in DOMAIN mine =>
                          http_log[i].auth # <<"Bearer ">> \o mine["client_secret"]

C18_Witness ==
    /\ pc = "exited"
    /\ Len(results) = 5
    /\ results[3].passed /\ results[4].passed
    /\ Len(Deletes) = 1
    /\ Registration[1].resp.body["client_id"] # Crud[1].resp.body["client_id"]
    /\ Registration[1].resp.body["registration_access_token"]
           # Crud[1].resp.body["registration_access_token"]

\* C19: exit code 0 implies a complete run: the result list holds exactly
\* five results, one of each check in the fixed order, all five checks were
\* entered, and every result is a passed one; with fewer than five results
\* the exit code is never 0.
C19_ExitZeroCompleteRun ==
    /\ exit_code = Some(0) =>
           /\ pc = "exited"
           /\ Len(results) = 5
           /\ calls = CheckOrder
           /\ \A i \in 1..5 : results[i].name = CheckOrder[i] /\ results[i].passed
    /\ (pc = "exited" /\ Len(results) < 5) => exit_code = Some(1)

C19_Witness ==
    /\ exit_code = Some(0)
    /\ Len(results) = 5
    /\ Len(http_log) = 7

\* C20: in a run of run_all_tests on a fresh tester, whenever one of the
\* checks 2 to 5 is about to start or has started, the cached metadata is a
\* non-empty document holding all seven required keys whose issuer equals the
\* base URL stripped of its trailing slashes; so no result carries "Discovery
\* must pass first", and the JWKS check reports "No jwks_uri in discovery"
\* only for a jwks_uri key that is present with an empty value.
C20_ChecksSeeValidatedMetadata ==
    /\ (pc \in {"jwks", "registration", "crud", "compliance"} \/ Len(calls) >= 2) =>
           /\ results # <<>> /\ results[1].passed
           /\ metadata # None
           /\ DOMAIN metadata[1] # {}
           /\ RequiredSet \subseteq DOMAIN metadata[1]
           /\ metadata[1]["issuer"] = ngrok_url
           /\ StrippedOf(ngrok_url, argv[1])
    /\ \A i \in DOMAIN results : results[i].message # <<"Discovery must pass first">>
    /\ \A i \in DOMAIN results :
           results[i].message = <<"No jwks_uri in discovery">> =>
               /\ i = 2
               /\ "jwks_uri" \in DOMAIN metadata[1]
               /\ metadata[1]["jwks_uri"] = <<>>
               /\ Exchanges(JwksName) = <<>>

C20_Witness ==
    /\ pc = "exited"
    /\ Len(results) = 5
    /\ argv = <<BaseHSlash>>
    /\ metadata[1]["issuer"] = BaseH
    /\ results[2].message = <<"No jwks_uri in discovery">>
====
